---------------------------- MODULE Spec2Model ----------------------------
(***************************************************************************)
(* Model of manual_xml_tool.py: the version negotiation loop                *)
(* (ManualTool.negotiate_and_send) and the operator-triggered handlers      *)
(* that drive it (on_query_version, on_get_articles, on_get_fields,         *)
(* on_send_manual, on_send_create_order, on_send_import_order,              *)
(* on_start_order).                                                         *)
(*                                                                          *)
(* A response text is modelled by what the code reads from it:              *)
(*   verr        "version-error" in text                  (line 465, 472)   *)
(*   concerning  group 1 of <concerning>([^<]+)</concerning>, or NoMatch    *)
(*                                                         (line 466)       *)
(*   ok          "<return-value>ok</return-value>" in text (line 724, 762)  *)
(*   wf          ET.fromstring(text) does not raise        (line 72)        *)
(*   rootns, version, dbVersion   what parse_tnt_meta reads from the root   *)
(*   articles    what parse_article_names returns          (line 85-96)     *)
(*   fields      what parse_article_fields returns         (line 101-186)   *)
(*                                                                          *)
(* Two specifications share the negotiation actions:                        *)
(*   SpecNeg  one direct run of negotiate_and_send on a candidate list      *)
(*            drawn from CandLists, with the wire history kept in `log`;    *)
(*   Spec     the tool: the start-up query-version, then any sequence of    *)
(*            operator actions.                                             *)
(***************************************************************************)
EXTENDS Naturals, Sequences, FiniteSets

VARIABLES
    pc,                 \* position of the running handler ("idle" when none)
    op,                 \* xsi_type of the running operation
    candidates,         \* negotiate_and_send: parameter candidates
    idx,                \* negotiate_and_send: index of the for-loop's next candidate
    tried,              \* negotiate_and_send: local list tried
    last_resp,          \* negotiate_and_send: local last_resp
    want,               \* negotiate_and_send: local want (version of the forced retry)
    result,             \* value returned by negotiate_and_send / send_inner
    order_name,         \* handler local order_name, captured by builder
    edIface,            \* ManualTool.edIface text (TNT version)
    edDB,               \* ManualTool.edDB text (dbVersion)
    edNS,               \* ManualTool.edNS text (namespace)
    edOrderName,        \* ManualTool.edOrderName text
    listArticles,       \* ManualTool.listArticles items
    currentItem,        \* ManualTool.listArticles.currentItem() (0 = none)
    current_article,    \* ManualTool.current_article
    last_created_order, \* ManualTool.last_created_order
    notice,             \* title of the message box the last handler showed ("" = none)
    log,                \* history of the sends of a direct negotiate_and_send run
    edTarget,           \* ManualTool.edHost / edPort: the configured << host, port >>
    client,             \* ManualTool.client: host, port and sock of the TQSClient
    opened,             \* number of sockets of the tool that are connected and not closed
    reconnected,        \* whether the client's last operation called connect()
    current_fields,     \* ManualTool.current_fields
    fin,                \* input of the function under study (SpecRead, SpecEscape, ...)
    fout,               \* its working state and output
    fpc                 \* its position

vars == << pc, op, candidates, idx, tried, last_resp, want, result, order_name,
           edIface, edDB, edNS, edOrderName, listArticles, currentItem,
           current_article, last_created_order, notice, log,
           edTarget, client, opened, reconnected, current_fields, fin, fout, fpc >>

negVars == << candidates, idx, tried, last_resp, want, result >>
ctxVars == << edIface, edDB, edNS >>
guiVars == << edOrderName, listArticles, currentItem, current_article,
              last_created_order, notice >>
netVars == << client, opened, reconnected >>
funVars == << fin, fout, fpc >>
restVars == << edTarget, client, opened, reconnected, current_fields, fin, fout, fpc >>
toolVars == << pc, op, negVars, order_name, ctxVars, guiVars, log,
               edTarget, client, opened, reconnected, current_fields >>

-----------------------------------------------------------------------------
(* Values *)

\* Python None (last_created_order, current_article, db_ver)
None == "<None>"
\* re.search found no <concerning> element
NoMatch == "<no-match>"
\* result while negotiate_and_send has returned nothing; a returned text r is <<r>>
NoResult == << >>

\* longest candidate list of a direct negotiate_and_send run
MaxCands == 3

\* versions the candidate lists of a direct run are made of
CandVersions == {"2.0", "1.1", "1.0"}

\* texts a server puts between <concerning> and </concerning>
ConcTexts == {" ", "1.1", " 1.5 "}

\* str.strip() on the texts of the model
Strip(s) ==
    CASE s = " "     -> ""
      [] s = " 1.5 " -> "1.5"
      [] s = " OrderB " -> "OrderB"
      [] OTHER       -> s

\* a response text, by what the code reads from it
Resp(verr, conc, ok, wf, rootns, ver, dbv, arts, flds) ==
    [ verr |-> verr, concerning |-> conc, ok |-> ok, wf |-> wf,
      rootns |-> rootns, version |-> ver, dbVersion |-> dbv, articles |-> arts,
      fields |-> flds ]

\* the empty text "": initial last_resp, and what a read that times out at once returns
EmptyText == Resp(FALSE, NoMatch, FALSE, FALSE, "", "", "", << >>, << >>)

\* a well-formed <tnt> response without namespace, version or dbVersion
Plain(verr, conc, ok) == Resp(verr, conc, ok, TRUE, "", "", "", << >>, << >>)


-----------------------------------------------------------------------------
(* Requests and the server's answers *)

\* xsi_type of a direct run of negotiate_and_send (SpecNeg)
Direct == "negotiate"
QueryVersion == "query-version-request"
GetArticleList == "get-article-list-request"
CreateOrder == "create-order-request"
ImportOrder == "import-order-request"
StartOrder == "start-order-request"
Manual == "manual"

\* the version-error answers: with no <concerning>, or with one of ConcTexts
VersionErrors == { Plain(TRUE, c, FALSE) : c \in ConcTexts \cup {NoMatch} }

\* answers to a direct run: accepted (with or without the ok marker) or version-error
DirectResponses == { Plain(FALSE, NoMatch, k) : k \in BOOLEAN } \cup VersionErrors

\* answers to query-version: not XML at all, or a <tnt> root with or without
\* namespace / version / dbVersion, accepted or version-error
QueryResponses ==
    { EmptyText }
    \cup { Resp(e, c, FALSE, TRUE, m[1], m[2], m[3], << >>, << >>) :
             e \in BOOLEAN, c \in {NoMatch, "1.1"},
             m \in { <<"", "", "">>, <<"urn:tqs", "2.0", "7">> } }

\* answers to get-article-list: a list of article names, or version-error
ArticleResponses ==
    { Resp(FALSE, NoMatch, FALSE, TRUE, "", "", "", a, << >>) :
        a \in { << >>, <<"Widget-A">>, <<"Widget-A", "Widget-B">> } }
    \cup VersionErrors

\* answers to create / import / start / manual: with or without the ok marker
OrderResponses ==
    { Plain(e, c, k) : e \in BOOLEAN, c \in {NoMatch, " 1.5 "}, k \in BOOLEAN }

\* a field catalog as parse_article_fields returns it
WidgetCatalog ==
    << [ level |-> 1, name |-> "qty", display |-> "Quantity",
         writable |-> TRUE, preset |-> None ],
       [ level |-> 1, name |-> "color", display |-> "Color",
         writable |-> TRUE, preset |-> "red" ] >>

\* answers to a manual request: like OrderResponses, or a response that holds fields
ManualResponses ==
    OrderResponses
    \cup { Resp(FALSE, NoMatch, FALSE, TRUE, "", "", "", << >>, WidgetCatalog) }

Responses(o) ==
    CASE o = Direct         -> DirectResponses
      [] o = QueryVersion   -> QueryResponses
      [] o = GetArticleList -> ArticleResponses
      [] o = Manual         -> ManualResponses
      [] OTHER              -> OrderResponses

-----------------------------------------------------------------------------
(* TQSClient and client_or_new, lines 192-240 and 395-404 *)

\* host/port pairs the operator configures; the first is the one of __init__
DefaultTarget == << "192.168.0.70", "7973" >>
Targets == { DefaultTarget, << "10.0.0.5", "7974" >> }

\* self.client is None
NoClient == [ host |-> None, port |-> None, sock |-> "none" ]

\* lines 196-199: TQSClient(host, port); sock is None.
\* sock is "none" (None), "live" (a connected socket) or "dead" (a socket object
\* whose connection failed or was closed by the peer)
NewClient(target) == [ host |-> target[1], port |-> target[2], sock |-> "none" ]

\* lines 214-219: close() closes the socket, if any, and sets sock to None
CloseSock(cl) == [ cl EXCEPT !.sock = "none" ]
CloseCount(cl, n) == IF cl.sock # "none" THEN n - 1 ELSE n

\* lines 395-404: client_or_new; gives the client and the count of open sockets
client_or_new(cl, n, target) ==
    IF cl # NoClient /\ (cl.host # target[1] \/ cl.port # target[2])
    THEN [ client |-> NewClient(target), opened |-> CloseCount(cl, n) ]
    ELSE IF cl = NoClient
         THEN [ client |-> NewClient(target), opened |-> n ]
         ELSE [ client |-> cl, opened |-> n ]

\* lines 203-210: connect() closes an existing socket and opens a new one
connect(c) ==
    [ client |-> [ c.client EXCEPT !.sock = "live" ],
      opened |-> CloseCount(c.client, c.opened) + 1 ]

\* lines 203-208: connect() raises at s.connect: the old socket is closed,
\* self.sock stays None
connect_fails(c) ==
    [ client |-> CloseSock(c.client), opened |-> CloseCount(c.client, c.opened) ]

\* lines 224-225: if not self.sock: self.connect()
Connected(c) == IF c.client.sock = "none" THEN connect(c) ELSE c

\* lines 226-237: self.sock after sendall or recv raised: no handler touches it
SockAfterError(sk) == "dead"

\* lines 796-815: on_received. With "<article>" in the text, parse_article_list
\* (defined nowhere) raises NameError and the fields are not looked at; otherwise
\* fields found in the text replace current_fields (the call of
\* populate_fields_view, defined nowhere, raises after the assignment)
on_received(r, cur) ==
    IF r.articles # << >> THEN cur
    ELSE IF r.fields # << >> THEN r.fields ELSE cur

\* lines 447-452, 223-240: send_inner returns the text r; keep = the peer leaves
\* the connection open after its answer. Over a dead socket nothing arrives:
\* recv gives b"" and the text is "".
Transport(r, keep) ==
    LET c0 == client_or_new(client, opened, edTarget)
        c  == Connected(c0)
    IN  /\ c.client.sock = "dead" => r = EmptyText
        /\ reconnected' = (c0.client.sock = "none")
        /\ client' = [ c.client EXCEPT
                          !.sock = IF keep /\ @ = "live" THEN "live" ELSE "dead" ]
        /\ opened' = c.opened
        /\ current_fields' = on_received(r, current_fields)

\* the places where send_and_recv raises: s.connect (line 208), sendall
\* (line 226), recv with an error other than a timeout (line 230)
RaiseKinds == {"connect", "send", "recv"}

\* lines 447-452, 223-240: send_inner raises
TransportRaises(kind) ==
    LET c0 == client_or_new(client, opened, edTarget)
    IN  /\ reconnected' = (c0.client.sock = "none")
        /\ IF kind = "connect"
           THEN /\ c0.client.sock = "none"
                /\ client' = connect_fails(c0).client
                /\ opened' = connect_fails(c0).opened
           ELSE /\ client' = [ Connected(c0).client EXCEPT !.sock = SockAfterError(@) ]
                /\ opened' = Connected(c0).opened

-----------------------------------------------------------------------------
(* negotiate_and_send, lines 456-477 *)

Range(s) == { s[i] : i \in 1..Len(s) }

\* line 465, 472: "version-error" in last_resp
IsVersionError(r) == r.verr

\* ForcedWant without the strip() of line 468
ForcedWant_NoStrip(r, tr) ==
    IF r.concerning = NoMatch THEN ""
    ELSE IF r.concerning \notin Range(tr) THEN r.concerning ELSE ""

\* lines 466-469: the version of the forced retry, "" when there is none:
\* m and want and want not in tried
ForcedWant(r, tr) ==
    IF r.concerning = NoMatch THEN ""
    ELSE LET w == Strip(r.concerning)
         IN  IF w # "" /\ w \notin Range(tr) THEN w ELSE ""

\* lines 465-476: what the loop does with the answer to a candidate
CandidateStep(r, tr) ==
    IF IsVersionError(r)
    THEN IF ForcedWant(r, tr) # "" THEN "forced" ELSE "continue"
    ELSE "return"

\* ForcedStep with the return of line 474 missing: the loop goes on
ForcedStep_NoReturn(r, tr) == "continue"

\* ForcedStep that follows the <concerning> of the forced retry's answer as well
ForcedStep_Chained(r, tr) == CandidateStep(r, tr)

\* lines 471-474: what the loop does with the answer to the forced retry
ForcedStep(r, tr) ==
    IF IsVersionError(r) THEN "continue" ELSE "return"

\* Returned that gives back the initial last_resp of line 459
Returned_Initial(r) == EmptyText

\* lines 474, 476: the value returned for an accepted response
Returned(r) == r

\* line 477: the value returned when the candidates are exhausted
Exhausted(last) == last

\* RaiseStep with the exception swallowed inside the loop
RaiseStep_Swallowed == "loop"

\* lines 447-452, 464, 471: neither send_inner nor negotiate_and_send catches what
\* send_and_recv raises: the exception leaves negotiate_and_send
RaiseStep == "exc"

\* one entry of the wire history of a direct run
Entry(ver, forced, raised, r) ==
    [ ver |-> ver, forced |-> forced, raised |-> raised, resp |-> r ]

Logged(e) == IF op = Direct THEN Append(log, e) ELSE log

\* the loop's next position after an answer r, with tried = tr
Advance(step, r, tr) ==
    /\ last_resp' = r
    /\ CASE step = "forced" ->
              /\ pc' = "forced"
              /\ want' = ForcedWant(r, tr)
              /\ UNCHANGED << idx, result >>
         [] step = "continue" ->
              /\ pc' = "loop"
              /\ idx' = idx + 1
              /\ want' = ""
              /\ UNCHANGED result
         [] OTHER ->
              /\ pc' = "ret"
              /\ result' = << Returned(r) >>
              /\ want' = ""
              /\ UNCHANGED idx

\* lines 461-476: tried.append(ver); send the candidate; inspect the answer.
\* (send_and_recv emits `received` before it returns; the slot on_received,
\* lines 796-815, catches every exception and writes none of the variables of
\* this model.)
send_candidate ==
    /\ pc = "loop"
    /\ idx <= Len(candidates)
    /\ \E r \in Responses(op) \cup {EmptyText}, keep \in BOOLEAN :
         LET ver == candidates[idx]
             tr  == Append(tried, ver)
         IN  /\ Transport(r, keep)
             /\ tried' = tr
             /\ Advance(CandidateStep(r, tr), r, tr)
             /\ log' = Logged(Entry(ver, FALSE, FALSE, r))
    /\ UNCHANGED << op, candidates, order_name, ctxVars, guiVars, edTarget, funVars >>

\* line 464: send_inner raises (connect, send or receive error)
send_candidate_raises ==
    /\ pc = "loop"
    /\ idx <= Len(candidates)
    /\ \E kind \in RaiseKinds : TransportRaises(kind)
    /\ tried' = Append(tried, candidates[idx])
    /\ pc' = RaiseStep
    /\ log' = Logged(Entry(candidates[idx], FALSE, TRUE, EmptyText))
    /\ UNCHANGED << op, candidates, idx, last_resp, want, result, order_name,
                    ctxVars, guiVars, edTarget, current_fields, funVars >>

\* lines 470-474: send the forced retry with version want; inspect the answer
send_forced ==
    /\ pc = "forced"
    /\ \E r \in Responses(op) \cup {EmptyText}, keep \in BOOLEAN :
         /\ Transport(r, keep)
         /\ Advance(ForcedStep(r, tried), r, tried)
         /\ log' = Logged(Entry(want, TRUE, FALSE, r))
    /\ UNCHANGED << op, candidates, tried, order_name, ctxVars, guiVars,
                    edTarget, funVars >>

\* line 471: send_inner raises during the forced retry
send_forced_raises ==
    /\ pc = "forced"
    /\ \E kind \in RaiseKinds : TransportRaises(kind)
    /\ pc' = RaiseStep
    /\ log' = Logged(Entry(want, TRUE, TRUE, EmptyText))
    /\ UNCHANGED << op, candidates, idx, tried, last_resp, want, result,
                    order_name, ctxVars, guiVars, edTarget, current_fields, funVars >>

\* line 477: the for-loop is over
loop_exhausted ==
    /\ pc = "loop"
    /\ idx > Len(candidates)
    /\ pc' = "ret"
    /\ result' = << Exhausted(last_resp) >>
    /\ UNCHANGED << op, candidates, idx, tried, last_resp, want, order_name,
                    ctxVars, guiVars, log >>
    /\ UNCHANGED restVars

Negotiate ==
    \/ send_candidate
    \/ send_candidate_raises
    \/ send_forced
    \/ send_forced_raises
    \/ loop_exhausted

\* lines 459-460: last_resp = "", tried = []
NegotiationStart(xsi_type, cands) ==
    /\ op' = xsi_type
    /\ candidates' = cands
    /\ idx' = 1
    /\ tried' = << >>
    /\ last_resp' = EmptyText
    /\ want' = ""
    /\ result' = NoResult
    /\ pc' = "loop"

-----------------------------------------------------------------------------
(* A direct run of negotiate_and_send *)

Seqs(S, n) == UNION { [1..k -> S] : k \in 0..n }

CandLists == Seqs(CandVersions, MaxCands)

\* __init__, lines 256-261, 338, 384-387: the state after construction
ToolInit ==
    /\ edIface = "1.15"
    /\ edDB = ""
    /\ edNS = "http://www.wipotec.com"
    /\ edOrderName = "TestOrder001"
    /\ listArticles = << >>
    /\ currentItem = 0
    /\ current_article = None
    /\ last_created_order = None
    /\ notice = ""
    /\ order_name = ""
    /\ log = << >>
    /\ edTarget = DefaultTarget
    /\ client = NoClient
    /\ opened = 0
    /\ reconnected = FALSE
    /\ current_fields = << >>

\* no function is under study
FunOff ==
    /\ fin = << >>
    /\ fout = << >>
    /\ fpc = "off"

\* the tool is not running: a function is studied on its own
ToolOff ==
    /\ ToolInit
    /\ pc = "off"
    /\ op = ""
    /\ candidates = << >>
    /\ idx = 1
    /\ tried = << >>
    /\ last_resp = EmptyText
    /\ want = ""
    /\ result = NoResult

InitNeg ==
    /\ ToolInit
    /\ FunOff
    /\ op = Direct
    /\ candidates \in CandLists
    /\ idx = 1
    /\ tried = << >>
    /\ last_resp = EmptyText
    /\ want = ""
    /\ result = NoResult
    /\ pc = "loop"

NextNeg == Negotiate

SpecNeg == InitNeg /\ [][NextNeg]_vars

-----------------------------------------------------------------------------
(* The handlers of ManualTool *)

\* the handler is over: its locals are gone
HandlerEnd ==
    /\ pc' = "idle"
    /\ op' = ""
    /\ candidates' = << >>
    /\ idx' = 1
    /\ tried' = << >>
    /\ last_resp' = EmptyText
    /\ want' = ""
    /\ result' = NoResult
    /\ order_name' = ""

\* an early return before anything is sent: a message box titled t is shown
EarlyReturn(t) ==
    /\ notice' = t
    /\ UNCHANGED << pc, op, negVars, order_name, ctxVars, edOrderName,
                    listArticles, currentItem, current_article,
                    last_created_order, log >>

\* the create-order list with the oldest version first
CreateOrderCandidates_OldestFirst == << "1.0", "1.1", "1.2", "2.0" >>

\* lines 494, 529, 709, 742, 779: the candidate lists
QueryVersionCandidates == << "1.0", "1.1", "2.0" >>
GetArticlesCandidates == << "2.0", "1.1", "1.0" >>
CreateOrderCandidates == << "2.0", "1.2", "1.1", "1.0" >>
ImportOrderCandidates == << "2.0", "1.2", "1.1", "1.0" >>
StartOrderCandidates == << "2.0", "1.1", "1.0" >>

\* lines 71-80: parse_tnt_meta; ET.fromstring raises on text that is not XML.
\* ElementTree keeps no xmlns attribute in root.attrib: without a namespace in
\* the root tag the result is the fallback.
parse_tnt_meta(r) ==
    [ raises |-> ~ r.wf,
      ns |-> IF r.rootns # "" THEN r.rootns ELSE "http://www.wipotec.com",
      tnt_version |-> r.version,
      dbv |-> r.dbVersion ]

\* lines 500-509: the context fields after on_query_version has read resp
ContextAfterQuery(r, iface, db, ns) ==
    LET m == parse_tnt_meta(r)
    IN  IF m.raises THEN << iface, db, ns >>
        ELSE << IF m.tnt_version # "" THEN m.tnt_version ELSE iface,
                IF m.dbv # "" THEN m.dbv ELSE db,
                IF m.ns # "" THEN m.ns ELSE ns >>

\* lines 85-96: parse_article_names
parse_article_names(r) == r.articles

\* lines 705, 739: order_name of create / import
CreateOrderName(entered) ==
    IF Strip(entered) # "" THEN Strip(entered) ELSE "TestOrder001"

\* StartOrderName with the remembered order first, the entered name as fallback
StartOrderName_RememberedFirst(entered, remembered) ==
    IF remembered # None THEN remembered ELSE Strip(entered)

\* line 770: order_name of start-order ("" when there is none)
StartOrderName(entered, remembered) ==
    IF Strip(entered) # "" THEN Strip(entered)
    ELSE IF remembered # None THEN remembered ELSE ""

\* lines 723-725, 761-763: last_created_order after the negotiation returned resp
RememberedAfter(r, name) == IF r.ok THEN name ELSE None

\* lines 492-499 (also the QTimer.singleShot of line 390)
on_query_version ==
    /\ pc \in {"startup", "idle"}
    /\ NegotiationStart(QueryVersion, QueryVersionCandidates)
    /\ notice' = ""
    /\ UNCHANGED << order_name, ctxVars, edOrderName, listArticles, currentItem,
                    current_article, last_created_order, log >>
    /\ UNCHANGED restVars

\* lines 500-509
on_query_version_done ==
    /\ pc = "ret" /\ op = QueryVersion
    /\ LET ctx == ContextAfterQuery(result[1], edIface, edDB, edNS)
       IN  /\ edIface' = ctx[1]
           /\ edDB' = ctx[2]
           /\ edNS' = ctx[3]
    /\ HandlerEnd
    /\ UNCHANGED << guiVars, log >>
    /\ UNCHANGED restVars

\* line 499 is outside the try: the exception leaves the handler and reaches
\* the Qt event loop; no handler runs after it in this model
on_query_version_escapes ==
    /\ pc = "exc" /\ op = QueryVersion
    /\ pc' = "escaped"
    /\ UNCHANGED << op, negVars, order_name, ctxVars, guiVars, log >>
    /\ UNCHANGED restVars

\* lines 527-539
on_get_articles ==
    /\ pc = "idle"
    /\ NegotiationStart(GetArticleList, GetArticlesCandidates)
    /\ notice' = ""
    /\ UNCHANGED << order_name, ctxVars, edOrderName, listArticles, currentItem,
                    current_article, last_created_order, log >>
    /\ UNCHANGED restVars

\* lines 540-543
on_get_articles_done ==
    /\ pc = "ret" /\ op = GetArticleList
    /\ listArticles' = parse_article_names(result[1])
    /\ currentItem' = 0
    /\ HandlerEnd
    /\ UNCHANGED << ctxVars, edOrderName, current_article, last_created_order,
                    notice, log >>
    /\ UNCHANGED restVars

\* lines 544-545, 726-727, 764-765, 790-791: except Exception -> append_raw
handler_catches ==
    /\ pc = "exc" /\ op \in {GetArticleList, CreateOrder, ImportOrder, StartOrder, Manual}
    /\ HandlerEnd
    /\ UNCHANGED << ctxVars, guiVars, log >>
    /\ UNCHANGED restVars

\* the operator selects an item of the article list (a message box is modal: it
\* has been dismissed before the operator does anything else)
SelectArticle ==
    /\ pc = "idle"
    /\ \E i \in 1..Len(listArticles) : currentItem' = i
    /\ notice' = ""
    /\ UNCHANGED << pc, op, negVars, order_name, ctxVars, edOrderName,
                    listArticles, current_article, last_created_order, log >>
    /\ UNCHANGED restVars

\* texts the operator types into the order-name field
OrderNameTexts == {"", "OrderA", " OrderB "}

\* the operator edits the order name
EditOrderName ==
    /\ pc = "idle"
    /\ \E t \in OrderNameTexts : edOrderName' = t
    /\ notice' = ""
    /\ UNCHANGED << pc, op, negVars, order_name, ctxVars, listArticles,
                    currentItem, current_article, last_created_order, log >>
    /\ UNCHANGED restVars

\* lines 549-575: self.send_req is defined nowhere, so line 562 raises
\* AttributeError inside the try and nothing is sent
on_get_fields ==
    /\ pc = "idle"
    /\ IF currentItem = 0
       THEN EarlyReturn("Fields")
       ELSE /\ current_article' = listArticles[currentItem]
            /\ notice' = ""
            /\ UNCHANGED << pc, op, negVars, order_name, ctxVars, edOrderName,
                            listArticles, currentItem, last_created_order, log >>
    /\ UNCHANGED restVars

\* lines 513-521
on_send_manual ==
    /\ pc = "idle"
    /\ \E startsWithRequest \in BOOLEAN :
         IF ~ startsWithRequest
         THEN EarlyReturn("Manual")
         ELSE /\ pc' = "manual"
              /\ op' = Manual
              /\ notice' = ""
              /\ UNCHANGED << negVars, order_name, ctxVars, edOrderName,
                              listArticles, currentItem, current_article,
                              last_created_order, log >>
    /\ UNCHANGED restVars

\* line 521: send_inner returns; the text is not used
on_send_manual_done ==
    /\ pc = "manual"
    /\ \E r \in Responses(Manual) \cup {EmptyText}, keep \in BOOLEAN : Transport(r, keep)
    /\ HandlerEnd
    /\ UNCHANGED << ctxVars, guiVars, log, edTarget, funVars >>

\* line 521: send_inner raises
on_send_manual_raises ==
    /\ pc = "manual"
    /\ \E kind \in RaiseKinds : TransportRaises(kind)
    /\ pc' = "exc"
    /\ UNCHANGED << op, negVars, order_name, ctxVars, guiVars, log,
                    edTarget, current_fields, funVars >>

\* lines 698-709 and 732-742: the prerequisite, order_name and the candidates
StartCreate(xsi_type, cands, title) ==
    /\ IF current_article = None
       THEN EarlyReturn(title)
       ELSE /\ order_name' = CreateOrderName(edOrderName)
            /\ NegotiationStart(xsi_type, cands)
            /\ notice' = ""
            /\ UNCHANGED << ctxVars, edOrderName, listArticles, currentItem,
                            current_article, last_created_order, log >>

\* lines 697-722
on_send_create_order ==
    /\ pc = "idle"
    /\ StartCreate(CreateOrder, CreateOrderCandidates, "Create order")
    /\ UNCHANGED restVars

\* lines 731-760
on_send_import_order ==
    /\ pc = "idle"
    /\ StartCreate(ImportOrder, ImportOrderCandidates, "Import order")
    /\ UNCHANGED restVars

\* lines 723-725 and 761-763
on_send_order_done ==
    /\ pc = "ret" /\ op \in {CreateOrder, ImportOrder}
    /\ last_created_order' = RememberedAfter(result[1], order_name)
    /\ HandlerEnd
    /\ UNCHANGED << ctxVars, edOrderName, listArticles, currentItem,
                    current_article, notice, log >>
    /\ UNCHANGED restVars

\* lines 769-789
on_start_order ==
    /\ pc = "idle"
    /\ LET name == StartOrderName(edOrderName, last_created_order)
       IN  IF name = ""
           THEN EarlyReturn("Start order")
           ELSE /\ order_name' = name
                /\ NegotiationStart(StartOrder, StartOrderCandidates)
                /\ notice' = ""
                /\ UNCHANGED << ctxVars, edOrderName, listArticles, currentItem,
                                current_article, last_created_order, log >>
    /\ UNCHANGED restVars

\* line 789: the returned text is not used
on_start_order_done ==
    /\ pc = "ret" /\ op = StartOrder
    /\ HandlerEnd
    /\ UNCHANGED << ctxVars, guiVars, log >>
    /\ UNCHANGED restVars

\* lines 482-488: on_test_connect; a failing connect is caught and logged
on_test_connect ==
    /\ pc = "idle"
    /\ LET c0 == client_or_new(client, opened, edTarget)
       IN  \E c \in {connect(c0), connect_fails(c0)} :
              /\ client' = c.client
              /\ opened' = c.opened
    /\ reconnected' = TRUE
    /\ notice' = ""
    /\ UNCHANGED << pc, op, negVars, order_name, ctxVars, edOrderName, listArticles,
                    currentItem, current_article, last_created_order, log,
                    edTarget, current_fields, funVars >>

\* the operator edits host or port
EditTarget ==
    /\ pc = "idle"
    /\ \E t \in Targets : edTarget' = t
    /\ notice' = ""
    /\ UNCHANGED << pc, op, negVars, order_name, ctxVars, edOrderName, listArticles,
                    currentItem, current_article, last_created_order, log,
                    netVars, current_fields, funVars >>

Init ==
    /\ ToolInit
    /\ FunOff
    /\ pc = "startup"
    /\ op = ""
    /\ candidates = << >>
    /\ idx = 1
    /\ tried = << >>
    /\ last_resp = EmptyText
    /\ want = ""
    /\ result = NoResult

Next ==
    \/ on_query_version
    \/ on_query_version_done
    \/ on_query_version_escapes
    \/ on_get_articles
    \/ on_get_articles_done
    \/ SelectArticle
    \/ EditOrderName
    \/ on_get_fields
    \/ on_send_manual
    \/ on_send_manual_done
    \/ on_send_manual_raises
    \/ on_send_create_order
    \/ on_send_import_order
    \/ on_send_order_done
    \/ on_start_order
    \/ on_start_order_done
    \/ handler_catches
    \/ on_test_connect
    \/ EditTarget
    \/ send_candidate
    \/ send_candidate_raises
    \/ send_forced
    \/ send_forced_raises
    \/ loop_exhausted

Spec == Init /\ [][Next]_vars

-----------------------------------------------------------------------------
(* Properties of negotiate_and_send, checked under SpecNeg *)

\* the versions sent so far, in order
SentVersions == [ i \in 1..Len(log) |-> log[i].ver ]

\* the answer received to the i-th send was a version-error
AnsweredVersionError(i) == ~ log[i].raised /\ log[i].resp.verr

\* the answer received to the i-th send was accepted (no version-error)
AnsweredAccepted(i) == ~ log[i].raised /\ ~ log[i].resp.verr

\* C1's server: version-error naming "1.1" to the first request, 1.1 accepted
C1_Server ==
    /\ candidates = << "2.0", "1.1", "1.0" >>
    /\ Len(log) >= 1
    /\ AnsweredVersionError(1)
    /\ log[1].resp.concerning # NoMatch
    /\ Strip(log[1].resp.concerning) = "1.1"
    /\ \A i \in 1..Len(log) : log[i].ver = "1.1" => AnsweredAccepted(i)

\* C1: with candidates ["2.0","1.1","1.0"], a version-error naming "1.1" in answer
\* to the first request and a server that accepts 1.1, the negotiation sends 2.0,
\* then 1.1 as forced retry, and returns the answer to 1.1: 2 sends, never 3.
C1_TwoRoundTrips ==
    C1_Server =>
        /\ Len(log) <= 2
        /\ log[1].ver = "2.0"
        /\ Len(log) = 1 => pc = "forced" /\ want = "1.1"
        /\ Len(log) = 2 =>
             /\ SentVersions = << "2.0", "1.1" >>
             /\ pc = "ret"
             /\ result = << log[2].resp >>

C1_Witness ==
    /\ C1_Server
    /\ pc = "ret"
    /\ Len(log) = 2
    /\ log[2].resp.ok

\* an answer that is a version-error with no usable <concerning>: none, or blank
Unusable(i) ==
    /\ AnsweredVersionError(i)
    /\ \/ log[i].resp.concerning = NoMatch
       \/ Strip(log[i].resp.concerning) = ""

C2_Server == \A i \in 1..Len(log) : Unusable(i)

\* C2: against a server that answers every request with a version-error without
\* usable <concerning>, negotiate_and_send sends each candidate once, in order,
\* nothing else, is never stuck before it returns, and returns the answer to the
\* last candidate ("" for an empty list).
C2_OneSendPerCandidate ==
    C2_Server =>
        /\ Len(log) <= Len(candidates)
        /\ \A i \in 1..Len(log) : log[i].ver = candidates[i] /\ ~ log[i].forced
        /\ pc \in {"loop", "ret"}
        /\ pc = "loop" => idx = Len(log) + 1 /\ ENABLED NextNeg
        /\ pc = "ret" =>
             /\ Len(log) = Len(candidates)
             /\ result = << IF Len(log) = 0 THEN EmptyText ELSE log[Len(log)].resp >>

C2_Witness ==
    /\ C2_Server
    /\ pc = "ret"
    /\ Len(log) = MaxCands
    /\ log[1].resp.concerning = " "
    /\ log[Len(log)].resp.concerning = NoMatch

NoDuplicates(sq) == \A i, j \in 1..Len(sq) : i # j => sq[i] # sq[j]

\* C3: within one run no version string is sent more than once (stated for
\* candidate lists that name no version twice).
C3_NoVersionSentTwice ==
    NoDuplicates(candidates) => NoDuplicates(SentVersions)

ForcedSends == { i \in 1..Len(log) : log[i].forced }

CandidateSends == SelectSeq(log, LAMBDA e : ~ e.forced)

\* C4 as stated: at most one request per negotiation carries a version taken from
\* a <concerning> element.
C4_OneForcedPerNegotiation == Cardinality(ForcedSends) <= 1

\* C4 as amended: at most one forced retry per candidate. Every forced retry
\* directly follows a candidate send answered by a version-error and carries the
\* version its <concerning> names; the send after a forced retry is never another
\* forced retry; the other sends are the candidates of the list, in order.
C4_OneForcedPerCandidate ==
    /\ \A i \in ForcedSends :
         /\ i > 1
         /\ ~ log[i - 1].forced
         /\ AnsweredVersionError(i - 1)
         /\ log[i - 1].resp.concerning # NoMatch
         /\ log[i].ver = Strip(log[i - 1].resp.concerning)
         /\ i < Len(log) => AnsweredVersionError(i)
    /\ Len(CandidateSends) <= Len(candidates)
    /\ \A k \in 1..Len(CandidateSends) : CandidateSends[k].ver = candidates[k]
    /\ Cardinality(ForcedSends) <= Len(CandidateSends)

C4_Witness ==
    /\ Cardinality(ForcedSends) >= 2
    /\ pc = "loop"
    /\ log[Len(log)].forced

\* C5: the first answer without version-error is the last thing received and is
\* what negotiate_and_send returns; when every answer was a version-error it
\* returns the last answer received.
C5_ReturnsFirstAccepted ==
    /\ \A i \in 1..Len(log) :
         AnsweredAccepted(i) =>
            /\ i = Len(log)
            /\ pc = "ret"
            /\ result = << log[i].resp >>
    /\ ( /\ pc = "ret"
         /\ Len(log) > 0
         /\ \A i \in 1..Len(log) : AnsweredVersionError(i) )
       => result = << log[Len(log)].resp >>

C5_Witness ==
    /\ pc = "ret"
    /\ Len(log) = 3
    /\ log[2].forced
    /\ AnsweredAccepted(3)
    /\ log[3].resp.ok

\* C6: a send that raises is the last send of the negotiation: the exception
\* leaves negotiate_and_send, which returns no response.
C6_RaiseAborts ==
    /\ \A i \in 1..Len(log) :
         log[i].raised => i = Len(log) /\ pc = "exc" /\ result = NoResult
    /\ pc = "exc" => Len(log) > 0 /\ log[Len(log)].raised

C6_Witness ==
    /\ pc = "exc"
    /\ Len(log) = 2
    /\ log[2].forced
    /\ idx < Len(candidates)

-----------------------------------------------------------------------------
(* Properties of the handlers, checked under Spec *)

NegotiatedOps == {QueryVersion, GetArticleList, CreateOrder, ImportOrder, StartOrder}

\* a negotiation is running, or has just handed its outcome to the handler
Negotiating == pc \in {"loop", "forced", "ret", "exc"} /\ op \in NegotiatedOps

\* a version string as a number: major * 10 + minor
VersionNumber(v) ==
    CASE v = "1.0" -> 10
      [] v = "1.1" -> 11
      [] v = "1.2" -> 12
      [] v = "1.5" -> 15
      [] v = "2.0" -> 20

StrictlyDescending(sq) ==
    \A i \in 1..(Len(sq) - 1) : VersionNumber(sq[i]) > VersionNumber(sq[i + 1])

StrictlyAscending(sq) ==
    \A i \in 1..(Len(sq) - 1) : VersionNumber(sq[i]) < VersionNumber(sq[i + 1])

DescendingOps == {GetArticleList, CreateOrder, ImportOrder, StartOrder}

\* C7 as stated: the candidate list of every negotiated request type, query-version
\* included, is in strictly descending version order.
C7_AllDescending ==
    Negotiating => StrictlyDescending(candidates)

\* C7 as amended: for get-article-list, create-order, import-order and start-order
\* the candidate list is strictly descending and is sent in list order, so the
\* first request carries the highest version and the last candidate is the oldest;
\* the query-version list is strictly ascending, "1.0" first.
C7_DescendingExceptQueryVersion ==
    Negotiating =>
        /\ Len(candidates) >= 3
        /\ \A i \in 1..Len(tried) : tried[i] = candidates[i]
        /\ op \in DescendingOps =>
             /\ StrictlyDescending(candidates)
             /\ \A i \in 1..Len(candidates) :
                  VersionNumber(candidates[1]) >= VersionNumber(candidates[i])
        /\ op = QueryVersion =>
             /\ StrictlyAscending(candidates)
             /\ candidates[1] = "1.0"

C7_Witness ==
    /\ op = CreateOrder
    /\ pc = "ret"
    /\ tried = << "2.0", "1.2", "1.1", "1.0" >>

\* C8: the context (edIface, edDB, edNS) changes only when on_query_version ends
\* with a response that has no version-error and parses.
C8_ContextOnlyOnSuccess ==
    [][ << edIface', edDB', edNS' >> # << edIface, edDB, edNS >>
          => /\ pc = "ret"
             /\ op = QueryVersion
             /\ ~ IsVersionError(result[1])
             /\ result[1].wf ]_vars

\* C9: at the end of every create-order or import-order action that passed the
\* article prerequisite, last_created_order is the order name used if the final
\* response holds the ok marker, and None in every other outcome, a transport
\* failure included.
C9_RememberedOrCleared ==
    [][ (pc \in {"ret", "exc"} /\ op \in {CreateOrder, ImportOrder} /\ pc' = "idle")
          => last_created_order' =
                 IF pc = "ret" /\ result[1].ok THEN order_name ELSE None ]_vars

\* C10 as stated: a start-order request carries the remembered order when there
\* is one, the entered name only when none is remembered.
C10_RememberedFirst ==
    (Negotiating /\ op = StartOrder) =>
        order_name = IF last_created_order # None
                     THEN last_created_order
                     ELSE Strip(edOrderName)

\* C10 as amended: a start-order request carries the entered order name when it
\* is not blank, the remembered order only when the entered name is blank, and the
\* action ends with the "Start order" notice, nothing sent, when neither exists.
C10_EnteredFirst ==
    /\ (Negotiating /\ op = StartOrder) =>
         /\ order_name # ""
         /\ order_name = IF Strip(edOrderName) # ""
                         THEN Strip(edOrderName)
                         ELSE last_created_order
    /\ notice = "Start order" =>
         /\ pc = "idle"
         /\ Strip(edOrderName) = ""
         /\ last_created_order = None

C10_Witness ==
    /\ op = StartOrder
    /\ pc = "ret"
    /\ Strip(edOrderName) = ""
    /\ order_name = "OrderB"
    /\ Len(tried) = 3

-----------------------------------------------------------------------------
(* The read loop of TQSClient.send_and_recv, lines 227-240, on its own *)

\* most chunks one call of send_and_recv receives
MaxChunks == 3

\* pieces of the byte stream: "</t" followed by "nt>" is the marker b"</tnt>",
\* "xFF" is a byte that is not valid UTF-8
Bytes == {"a", "</t", "nt>", "xFF"}

\* what one recv(65536) returns when it returns data: a non-empty bytes object
Chunks == Seqs(Bytes, 2) \ { << >> }

RECURSIVE Join(_)
\* b"".join(chunks)
Join(chunks) == IF chunks = << >> THEN << >> ELSE Head(chunks) \o Join(Tail(chunks))

\* b"</tnt>" in bs
HasMarker(bs) == \E i \in 1..(Len(bs) - 1) : bs[i] = "</t" /\ bs[i + 1] = "nt>"

\* the marker test on the last chunk alone
MarkerSeen_LastChunk(chunks) == HasMarker(chunks[Len(chunks)])

\* line 234: if b"</tnt>" in b"".join(chunks)
MarkerSeen(chunks) == HasMarker(Join(chunks))

\* line 238: decode("utf-8", errors="replace")
Decode(bs) == [ i \in 1..Len(bs) |-> IF bs[i] = "xFF" THEN "uFFFD" ELSE bs[i] ]

\* lines 238-240: the text emitted and returned
Returns(chunks, why) ==
    /\ fout' = [ chunks |-> chunks, text |-> Decode(Join(chunks)) ]
    /\ fpc' = why

\* fin: the bytes the socket has handed out and the outcome of the last recv;
\* fout: chunks and, after the loop, the text; fpc: "recv" inside the loop,
\* else how the call ended
InitRead ==
    /\ ToolOff
    /\ fin = [ bytes |-> << >>, event |-> "" ]
    /\ fout = [ chunks |-> << >>, text |-> << >> ]
    /\ fpc = "recv"

\* lines 230-235: recv returns data
recv_data ==
    /\ fpc = "recv"
    /\ Len(fout.chunks) < MaxChunks
    /\ \E b \in Chunks :
         LET chunks == Append(fout.chunks, b)
         IN  /\ fin' = [ bytes |-> fin.bytes \o b, event |-> "data" ]
             /\ IF MarkerSeen(chunks)
                THEN Returns(chunks, "marker")
                ELSE /\ fout' = [ fout EXCEPT !.chunks = chunks ]
                     /\ fpc' = "recv"
    /\ UNCHANGED toolVars

\* lines 230-232: recv returns b"": the peer has closed
recv_eof ==
    /\ fpc = "recv"
    /\ fin' = [ fin EXCEPT !.event = "eof" ]
    /\ Returns(fout.chunks, "closed")
    /\ UNCHANGED toolVars

\* lines 236-237: except socket.timeout: break
recv_timeout ==
    /\ fpc = "recv"
    /\ fin' = [ fin EXCEPT !.event = "timeout" ]
    /\ Returns(fout.chunks, "timeout")
    /\ UNCHANGED toolVars

\* line 230: recv raises another OSError, which leaves send_and_recv
recv_raises ==
    /\ fpc = "recv"
    /\ fin' = [ fin EXCEPT !.event = "error" ]
    /\ fpc' = "raised"
    /\ UNCHANGED << fout, toolVars >>

NextRead ==
    \/ recv_data
    \/ recv_eof
    \/ recv_timeout
    \/ recv_raises

SpecRead == InitRead /\ [][NextRead]_vars

-----------------------------------------------------------------------------
(* xml_escape and build_tnt, lines 34-43 and 408-437, on their own.          *)
(* A text is a sequence of characters; the fixed parts of the envelope are   *)
(* one element each.                                                         *)

\* longest text of a line edit
MaxText == 3

Chars == {"&", "<", ">", "\"", "'", ";", "a", " "}
Texts == Seqs(Chars, MaxText)

\* the line edits build_tnt reads, and their texts after __init__ (lines 258-261)
EnvelopeFields == {"agent", "iface", "db", "ns"}
DefaultEdits ==
    [ agent |-> << "M", "W" >>, iface |-> << "1", ".", "1", "5" >>, db |-> << >>,
      ns |-> << "http://www.wipotec.com" >> ]

\* inner fragments: callers pass pre-built XML
InnerFragments ==
    { << >>, << "<", "a", ">", "&", "\"", "<", "/", "a", ">" >>, << "&", "a", ";" >> }

RECURSIVE Replace(_, _, _)
\* str.replace(old, new) for a one-character old
Replace(t, old, new) ==
    IF t = << >> THEN << >>
    ELSE (IF Head(t) = old THEN new ELSE << Head(t) >>) \o Replace(Tail(t), old, new)

AMP  == << "&", "a", "m", "p", ";" >>
LT   == << "&", "l", "t", ";" >>
GT   == << "&", "g", "t", ";" >>
QUOT == << "&", "q", "u", "o", "t", ";" >>
APOS == << "&", "a", "p", "o", "s", ";" >>

\* xml_escape with the replacement of "&" done last
xml_escape_AmpLast(t) ==
    IF t = << >> THEN << >>
    ELSE Replace(Replace(Replace(Replace(Replace(t,
             "<", LT), ">", GT), "\"", QUOT), "'", APOS), "&", AMP)

\* lines 34-43
xml_escape(t) ==
    IF t = << >> THEN << >>
    ELSE Replace(Replace(Replace(Replace(Replace(t,
             "&", AMP), "<", LT), ">", GT), "\"", QUOT), "'", APOS)

RECURSIVE LStrip(_)
LStrip(t) == IF t # << >> /\ Head(t) = " " THEN LStrip(Tail(t)) ELSE t

RECURSIVE RStrip(_)
RStrip(t) ==
    IF t # << >> /\ t[Len(t)] = " " THEN RStrip(SubSeq(t, 1, Len(t) - 1)) ELSE t

\* str.strip() on a text
StripText(t) == RStrip(LStrip(t))

\* lines 408-425: text.strip() or default; db_ver gives None (here << >>) when empty
current_ns(e) == IF StripText(e.ns) # << >> THEN StripText(e.ns) ELSE << "http://www.wipotec.com" >>
iface_ver(e)  == IF StripText(e.iface) # << >> THEN StripText(e.iface) ELSE << "1", ".", "1", "5" >>
db_ver(e)     == StripText(e.db)
agent(e)      == IF StripText(e.agent) # << >> THEN StripText(e.agent) ELSE << "M", "W" >>

\* lines 429-437
build_tnt(e, inner_xml) ==
    << "<tnt version=Q" >> \o xml_escape(iface_ver(e))
    \o (IF db_ver(e) # << >> THEN << "Q dbVersion=Q" >> \o xml_escape(db_ver(e)) ELSE << >>)
    \o << "Q xmlns=Q" >> \o xml_escape(current_ns(e))
    \o << "Q xmlns:xsi=...><header><agent>" >> \o xml_escape(agent(e))
    \o << "</agent><timestamp>", "iso_now", "</timestamp></header>" >>
    \o inner_xml
    \o << "</tnt>" >>

\* fin: the line edits and the inner fragment; fout: the envelope
InitEscape ==
    /\ ToolOff
    /\ \E f \in EnvelopeFields, t \in Texts, x \in InnerFragments :
         fin = [ edits |-> [ DefaultEdits EXCEPT ![f] = t ], inner |-> x ]
    /\ fout = << >>
    /\ fpc = "build"

call_build_tnt ==
    /\ fpc = "build"
    /\ fout' = build_tnt(fin.edits, fin.inner)
    /\ fpc' = "built"
    /\ UNCHANGED << fin, toolVars >>

NextEscape == call_build_tnt

SpecEscape == InitEscape /\ [][NextEscape]_vars

-----------------------------------------------------------------------------
(* parse_article_fields, lines 101-186, on its own.                          *)
(* The elements below <response> in document order; parent 0 is <response>.  *)

\* most elements below <response>, id children and leaves left aside
MaxNodes == 3

\* texts of an <id> child: "sup2" stands for the superscript two, for which
\* str.isdigit() is True and int() raises ValueError
IdTexts == {"1", "2", "x", "sup2"}

\* an <aggregation-level> with its <id> children in order
AggNode(ids) ==
    [ kind |-> "agg", ids |-> ids, presets |-> << >>, constraints |-> << >> ]

\* an element with direct children <name> and <display-name>; presets: the
\* texts of its value-set-by-article / preset / default-value children in
\* order; constraints: its <constraint> descendants in order
FieldNode(presets, constraints) ==
    [ kind |-> "field", ids |-> << >>, presets |-> presets, constraints |-> constraints ]

NodeContents ==
    { AggNode(ids) : ids \in { << >>, <<"1">>, <<"2">>, <<"x">>, <<"sup2">>, <<"x", "2">> } }
    \cup { FieldNode(<< >>, << >>),
           FieldNode(<<"A">>, << >>),
           FieldNode(<<"A", "B">>, << [ type |-> 27, value |-> "[0-9]+" ] >>),
           FieldNode(<< >>, << [ type |-> 10, value |-> "" ],
                               [ type |-> 99, value |-> "z" ] >>) }

\* documents: every element's parent comes before it
Documents ==
    UNION { { d \in [ 1..n -> [ parent : 0..(MaxNodes - 1), node : NodeContents ] ] :
                \A i \in 1..n : d[i].parent < i } : n \in 1..MaxNodes }

\* str.isdigit()
IsDigit(t) == t \in {"1", "2", "sup2"}

\* int() raises ValueError
IntRaises(t) == t = "sup2"

\* int()
ToInt(t) == IF t = "1" THEN 1 ELSE 2

RECURSIVE FirstDigitId(_)
\* lines 143-146: the first <id> child whose text isdigit(), None if there is none
FirstDigitId(ids) ==
    IF ids = << >> THEN None
    ELSE IF IsDigit(Head(ids)) THEN Head(ids) ELSE FirstDigitId(Tail(ids))

\* lines 142-146: lvl of one aggregation-level
AggLevel(ids) == IF FirstDigitId(ids) = None THEN 1 ELSE ToInt(FirstDigitId(ids))

\* line 145: int(ch.text.strip()) raises
AggRaises(ids) == FirstDigitId(ids) # None /\ IntRaises(FirstDigitId(ids))

RECURSIVE InSubtree(_, _, _)
\* line 148: sub is in agg.iter(): agg itself or a descendant
InSubtree(d, a, sub) ==
    \/ sub = a
    \/ sub > a /\ d[sub].parent # 0 /\ InSubtree(d, a, d[sub].parent)

RECURSIVE LevelMap(_, _, _)
\* lines 139-149: the aggregation-levels from element i on, in document order,
\* mark their subtrees in map; a later marker overwrites an earlier one
LevelMap(d, i, map) ==
    IF i > Len(d) THEN map
    ELSE IF d[i].node.kind # "agg" THEN LevelMap(d, i + 1, map)
    ELSE LET subs == { k \in 1..Len(d) : InSubtree(d, i, k) }
         IN  LevelMap(d, i + 1,
                      [ k \in subs \cup DOMAIN map |->
                          IF k \in subs THEN AggLevel(d[i].node.ids) ELSE map[k] ])

\* lines 160-168: the last matching child's text stays in preset
LastPreset(presets) == IF presets = << >> THEN None ELSE presets[Len(presets)]

\* lines 172-183: the row of element i
Row(d, i, map) ==
    [ level |-> IF i \in DOMAIN map THEN map[i] ELSE 1,
      name |-> "n", display |-> "d", writable |-> TRUE,
      preset |-> LastPreset(d[i].node.presets) ]

RECURSIVE Rows(_, _, _)
\* lines 152-183: a row for each field element from i on, in document order
Rows(d, i, map) ==
    IF i > Len(d) THEN << >>
    ELSE (IF d[i].node.kind = "field" THEN << Row(d, i, map) >> ELSE << >>)
         \o Rows(d, i + 1, map)

\* lines 111-186: an exception (here: of int()) ends the parse with the rows
\* collected so far, which are none during the first pass
parse_article_fields(d) ==
    IF \E i \in 1..Len(d) : d[i].node.kind = "agg" /\ AggRaises(d[i].node.ids)
    THEN << >>
    ELSE Rows(d, 1, LevelMap(d, 1, << >>))

\* line 634: f.get("constraints", [])
RowConstraints(f) == IF "constraints" \in DOMAIN f THEN f.constraints ELSE << >>

\* fin: the document; fout: the rows returned
InitFields ==
    /\ ToolOff
    /\ fin \in Documents
    /\ fout = << >>
    /\ fpc = "parse"

call_parse_article_fields ==
    /\ fpc = "parse"
    /\ fout' = parse_article_fields(fin)
    /\ fpc' = "parsed"
    /\ UNCHANGED << fin, toolVars >>

NextFields == call_parse_article_fields

SpecFields == InitFields /\ [][NextFields]_vars

-----------------------------------------------------------------------------
(* _make_editor_for_constraints, lines 577-609, on its own *)

\* longest constraint list
MaxConstraints == 3

\* constraints: a type code and a value; 99 is a code without a meaning
ConstraintValues == {"", "[0-9]+", "(0 9)", "x"}
Constraints == [ type : {27, 25, 10, 99}, value : ConstraintValues ]
ConstraintLists == Seqs(Constraints, MaxConstraints)

\* line 597: re.match(r"\(\s*(-?\d+)\s+(-?\d+)\s*\)", value) on the values above
IntervalMatch(v) == v = "(0 9)"

\* lines 582-584: rx_vals
rx_vals(cs) == SelectSeq(cs, LAMBDA c : c.type = 27 /\ c.value # "")

\* lines 593-595: the candidates of next(...); rng is the first of them
rng_candidates(cs) == SelectSeq(cs, LAMBDA c : c.type = 25 /\ c.value # "")

\* lines 580-609: the validator and the placeholder of the editor returned.
\* QRegularExpression(str) does not raise, so line 591 is not reached.
make_editor_for_constraints(cs) ==
    IF rx_vals(cs) # << >>
    THEN [ behaviour |-> "regex", arg |-> rx_vals(cs)[1].value ]
    ELSE IF rng_candidates(cs) # << >> /\ IntervalMatch(rng_candidates(cs)[1].value)
    THEN [ behaviour |-> "int", arg |-> rng_candidates(cs)[1].value ]
    ELSE IF \E k \in 1..Len(cs) : cs[k].type = 10
    THEN [ behaviour |-> "required", arg |-> "" ]
    ELSE [ behaviour |-> "value", arg |-> "" ]

\* fin: the constraint list; fout: the editor
InitEditor ==
    /\ ToolOff
    /\ fin \in ConstraintLists
    /\ fout = << >>
    /\ fpc = "make"

call_make_editor_for_constraints ==
    /\ fpc = "make"
    /\ fout' = make_editor_for_constraints(fin)
    /\ fpc' = "made"
    /\ UNCHANGED << fin, toolVars >>

NextEditor == call_make_editor_for_constraints

SpecEditor == InitEditor /\ [][NextEditor]_vars

-----------------------------------------------------------------------------
(* populate_fields_tree, build_order_data_xml_from_tree and                  *)
(* build_sns_block_if_checked, lines 613-692, on their own                   *)

\* longest field catalog
MaxFields == 3

\* rows of a field catalog as parse_article_fields returns them; a name is a
\* text of one element
CatalogRows ==
    [ level : {1, 2}, name : { << "qty" >> }, writable : BOOLEAN,
      preset : {None, "red"} ]
Catalogs == Seqs(CatalogRows, MaxFields)

\* texts the operator types into an editor
EditorTexts == { << >>, << "7" >>, << " " >>, << " ", "<" >> }

RECURSIVE FilterRows(_, _, _)
\* line 617: fields = [f for f in fields if f.get("writable") and not f.get("preset")];
\* the rows from i on that stay, each with its index in the catalog
FilterRows(fields, i, requiredOnly) ==
    IF i > Len(fields) THEN << >>
    ELSE (IF requiredOnly => (fields[i].writable /\ fields[i].preset = None)
          THEN << [ src |-> i, f |-> fields[i] ] >> ELSE << >>)
         \o FilterRows(fields, i + 1, requiredOnly)

RECURSIVE SortedLevels(_)
\* sorted(...) of a set of levels
SortedLevels(S) ==
    IF S = {} THEN << >>
    ELSE LET m == CHOOSE x \in S : \A y \in S : x <= y
         IN  << m >> \o SortedLevels(S \ {m})

\* lines 627-636: the item of one row: column 3 is "yes" or "no", a writable
\* row gets an editor (whatever its preset), another row shows its preset
TreeItem(r) ==
    [ src |-> r.src, name |-> r.f.name,
      writable |-> IF r.f.writable THEN "yes" ELSE "no",
      editor |-> r.f.writable ]

\* lines 613-637: the top-level items, one per level of the rows that stay,
\* ascending, each with the items of its rows in catalog order
populate_fields_tree(fields, requiredOnly) ==
    LET rows == FilterRows(fields, 1, requiredOnly)
        lvls == SortedLevels({ rows[k].f.level : k \in 1..Len(rows) })
    IN  [ n \in 1..Len(lvls) |->
            [ lvl |-> lvls[n],
              items |-> LET mine == SelectSeq(rows, LAMBDA r : r.f.level = lvls[n])
                        IN  [ j \in 1..Len(mine) |-> TreeItem(mine[j]) ] ] ]

\* lines 655-660: the stripped text of the item's editor, "" without an editor
EditorValue(it, typed) == IF it.editor THEN StripText(typed[it.src]) ELSE << >>

\* lines 651-663: filled[lvl] of one top-level item
Filled(parent, typed) ==
    LET kept == SelectSeq(parent.items,
                          LAMBDA it : it.writable = "yes" /\ EditorValue(it, typed) # << >>)
    IN  [ j \in 1..Len(kept) |->
            [ name |-> xml_escape(kept[j].name),
              value |-> xml_escape(EditorValue(kept[j], typed)) ] ]

\* lines 641-683: the aggregation-level blocks of <order-data> and the levels
build_order_data_xml_from_tree(tree, typed) ==
    IF tree = << >>
    THEN [ blocks |-> << [ id |-> 0, elements |-> << >> ] >>, levels |-> << 0 >> ]
    ELSE [ blocks |-> [ n \in 1..Len(tree) |->
                          [ id |-> tree[n].lvl, elements |-> Filled(tree[n], typed) ] ],
           levels |-> [ n \in 1..Len(tree) |-> tree[n].lvl ] ]

\* no <sns> block: build_sns_block_if_checked returns ""
NoSns == [ present |-> FALSE, level |-> 0 ]

\* lines 687-692: the level id of the serial-number block
build_sns_block_if_checked(levels, includeSN) ==
    IF ~ includeSN THEN NoSns
    ELSE LET pos == SelectSeq(levels, LAMBDA l : l > 0)
         IN  [ present |-> TRUE, level |-> IF pos = << >> THEN 0 ELSE pos[1] ]

\* fin: the catalog received, the check boxes and what the operator types into
\* the editor of each row that has one; fout: the fields tree, then the
\* fragment, the levels and the serial-number block. fieldsView is empty
\* after __init__ (line 322).
InitOrder ==
    /\ ToolOff
    /\ \E c \in Catalogs :
         \E t \in [ 1..Len(c) -> EditorTexts ], ro \in BOOLEAN, sn \in BOOLEAN :
            fin = [ fields |-> c, typed |-> t, chkRequiredOnly |-> ro, chkIncludeSN |-> sn ]
    /\ fout = [ tree |-> << >> ]
    /\ fpc = "received"

\* lines 809-812 (and 567-569): the tool calls self.populate_fields_view,
\* which is defined nowhere: AttributeError, caught at line 813; fieldsView
\* stays as it was
populate_fields_view_raises ==
    /\ fpc = "received"
    /\ fpc' = "tree"
    /\ UNCHANGED << fin, fout, toolVars >>

\* lines 613-637: populate_fields_tree called with the catalog
call_populate_fields_tree ==
    /\ fpc = "received"
    /\ fout' = [ tree |-> populate_fields_tree(fin.fields, fin.chkRequiredOnly) ]
    /\ fpc' = "tree"
    /\ UNCHANGED << fin, toolVars >>

\* lines 706-707 and 740-741: the fragment and the serial-number block of a
\* create or import request
build_order_request ==
    /\ fpc = "tree"
    /\ LET od == build_order_data_xml_from_tree(fout.tree, fin.typed)
       IN  fout' = [ tree |-> fout.tree, blocks |-> od.blocks, levels |-> od.levels,
                     sns |-> build_sns_block_if_checked(od.levels, fin.chkIncludeSN) ]
    /\ fpc' = "built"
    /\ UNCHANGED << fin, toolVars >>

NextOrder ==
    \/ populate_fields_view_raises
    \/ call_populate_fields_tree
    \/ build_order_request

SpecOrder == InitOrder /\ [][NextOrder]_vars

-----------------------------------------------------------------------------
(* Several send_and_recv calls over one connection, lines 223-240 and        *)
(* 395-404                                                                   *)

\* most requests sent
MaxRequests == 3

\* most bytes one recv returns
MaxRecv == 2

\* the server's reply to request n: each byte with the request it answers
Reply(n) == [ i \in 1..3 |-> [ req |-> n, byte |-> << "a", "</t", "nt>" >>[i] ] ]

\* fin: the bytes sent by the server on the connection and not yet read, in
\* order; fout: the number of the request, chunks of the running call, the
\* request each of their bytes answers, and the text returned
InitStream ==
    /\ ToolOff
    /\ fin = << >>
    /\ fout = [ req |-> 0, chunks |-> << >>, origin |-> << >>, text |-> << >> ]
    /\ fpc = "idle"

\* lines 224-227: the connection exists already, so sendall goes over it and
\* chunks starts empty; the server answers the request
send_request ==
    /\ fpc \in {"idle", "returned"}
    /\ fout.req < MaxRequests
    /\ fin' = fin \o Reply(fout.req + 1)
    /\ fout' = [ req |-> fout.req + 1, chunks |-> << >>, origin |-> << >>,
                 text |-> << >> ]
    /\ fpc' = "recv"
    /\ UNCHANGED toolVars

\* lines 230-235: recv returns the next bytes of the connection
recv_reply ==
    /\ fpc = "recv"
    /\ \E k \in 1..MaxRecv :
         /\ k <= Len(fin)
         /\ LET b      == [ i \in 1..k |-> fin[i].byte ]
                chunks == Append(fout.chunks, b)
                origin == fout.origin \o [ i \in 1..k |-> fin[i].req ]
            IN  /\ fin' = SubSeq(fin, k + 1, Len(fin))
                /\ IF MarkerSeen(chunks)
                   THEN /\ fout' = [ fout EXCEPT !.chunks = chunks, !.origin = origin,
                                                 !.text = Decode(Join(chunks)) ]
                        /\ fpc' = "returned"
                   ELSE /\ fout' = [ fout EXCEPT !.chunks = chunks, !.origin = origin ]
                        /\ fpc' = "recv"
    /\ UNCHANGED toolVars

\* lines 236-240: the read times out; what was accumulated is returned, what
\* the server sends later stays on the connection
recv_reply_timeout ==
    /\ fpc = "recv"
    /\ fout' = [ fout EXCEPT !.text = Decode(Join(fout.chunks)) ]
    /\ fpc' = "returned"
    /\ UNCHANGED << fin, toolVars >>

\* lines 398-400: host or port changed: the old client is closed and a new
\* connection is used, without the unread bytes of the old one
target_changed ==
    /\ fpc \in {"idle", "returned"}
    /\ fin # << >>
    /\ fin' = << >>
    /\ UNCHANGED << fout, fpc, toolVars >>

NextStream ==
    \/ send_request
    \/ recv_reply
    \/ recv_reply_timeout
    \/ target_changed

SpecStream == InitStream /\ [][NextStream]_vars

-----------------------------------------------------------------------------
(* C11 .. C15: prerequisites, connection and article list *)

\* a create or import request of the running handler has left the tool
OrderRequestSent ==
    /\ op \in {CreateOrder, ImportOrder}
    /\ pc \in {"loop", "forced", "ret"}
    /\ tried # << >>

\* C11: a create-order or import-order request is sent only when an article is
\* selected and its fields have been fetched; otherwise the handler shows a
\* notice and changes neither last_created_order nor the connection.
C11_OrderNeedsFetchedFields ==
    /\ [](OrderRequestSent => (current_article # None /\ current_fields # << >>))
    /\ [][ (pc = "idle" /\ notice' \in {"Create order", "Import order"})
             => UNCHANGED << pc, last_created_order, client, opened >> ]_vars

\* a step in which send_and_recv is called
SendStep ==
    \/ pc = "loop" /\ idx <= Len(candidates)
    \/ pc = "forced"
    \/ pc = "manual"

\* C12: a send_and_recv that fails with a connect, send or receive error leaves
\* the client without a socket (sock is None).
C12_FailureDropsConnection ==
    [][ (SendStep /\ pc' = "exc") => client'.sock = "none" ]_vars

\* C13: every request goes over a connection to the configured host/port; a
\* changed target closes the old connection; a connection that is not usable
\* any more is re-established by the next send; at most one connection is open.
C13_OneConnectionToTarget ==
    /\ [](opened \in {0, 1})
    /\ [][ SendStep =>
             /\ << client'.host, client'.port >> = edTarget
             /\ client.sock # "live" => reconnected' ]_vars

\* C15: the article list changes only on a get-article-list response that is
\* not a version-error, and then becomes the names parsed from that response.
C15_ListOnlyOnSuccess ==
    [][ listArticles' # listArticles =>
          /\ pc = "ret" /\ op = GetArticleList
          /\ ~ IsVersionError(result[1])
          /\ listArticles' = parse_article_names(result[1]) ]_vars

\* C14: the read loop ends at the first of: the marker is in the accumulated
\* bytes, a read timeout, the peer closing; it then returns all the bytes
\* received (decoded), and a timeout is a return, not an error.
C14_ReadLoopEnds ==
    /\ fpc = "recv" => ~ HasMarker(fin.bytes) /\ fin.event \in {"", "data"}
    /\ fpc = "marker" =>
          /\ fin.event = "data"
          /\ HasMarker(fin.bytes)
          /\ ~ HasMarker(Join(SubSeq(fout.chunks, 1, Len(fout.chunks) - 1)))
    /\ fin.event = "timeout" <=> fpc = "timeout"
    /\ fin.event = "eof" <=> fpc = "closed"
    /\ fpc \in {"marker", "timeout", "closed"} =>
          /\ Join(fout.chunks) = fin.bytes
          /\ fout.text = Decode(fin.bytes)
    /\ fpc = "raised" => fin.event = "error"

\* the marker arrives split over two chunks and ends the loop
C14_Witness ==
    /\ fpc = "marker"
    /\ Len(fout.chunks) = 2
    /\ ~ HasMarker(fout.chunks[1])
    /\ ~ HasMarker(fout.chunks[2])
    /\ fout.text = << "a", "</t", "nt>", "uFFFD" >>

\* the part of the envelope between two of its fixed parts
Between(env, from, to) ==
    LET i == CHOOSE k \in 1..Len(env) : env[k] = from
        j == CHOOSE k \in 1..Len(env) : env[k] = to
    IN  SubSeq(env, i + 1, j - 1)

\* the entity of one character
Entity(c) ==
    CASE c = "&"  -> AMP
      [] c = "<"  -> LT
      [] c = ">"  -> GT
      [] c = "\"" -> QUOT
      [] c = "'"  -> APOS
      [] OTHER    -> << c >>

RECURSIVE Entities(_)
\* each character of t replaced by its entity, once
Entities(t) == IF t = << >> THEN << >> ELSE Entity(Head(t)) \o Entities(Tail(t))

\* no raw <, > or quote, and every & starts one of the five entities
NothingRaw(seg) ==
    \A i \in 1..Len(seg) :
        /\ seg[i] \notin {"<", ">", "\"", "'"}
        /\ seg[i] = "&" =>
              \E n \in {AMP, LT, GT, QUOT, APOS} :
                  /\ i + Len(n) - 1 <= Len(seg)
                  /\ SubSeq(seg, i, i + Len(n) - 1) = n

\* C16: build_tnt inserts agent, interface version, dbVersion and namespace
\* with each & < > " ' replaced once by its entity, so that nothing raw of
\* these fields is in the envelope; the inner fragment is inserted verbatim.
C16_EnvelopeEscaped ==
    fpc = "built" =>
      LET e == fin.edits
          hasDb == \E k \in 1..Len(fout) : fout[k] = "Q dbVersion=Q"
          ver == Between(fout, "<tnt version=Q",
                         IF hasDb THEN "Q dbVersion=Q" ELSE "Q xmlns=Q")
          ns  == Between(fout, "Q xmlns=Q", "Q xmlns:xsi=...><header><agent>")
          ag  == Between(fout, "Q xmlns:xsi=...><header><agent>", "</agent><timestamp>")
      IN  /\ ver = Entities(iface_ver(e)) /\ NothingRaw(ver)
          /\ ns = Entities(current_ns(e)) /\ NothingRaw(ns)
          /\ ag = Entities(agent(e)) /\ NothingRaw(ag)
          /\ hasDb <=> db_ver(e) # << >>
          /\ hasDb =>
                LET db == Between(fout, "Q dbVersion=Q", "Q xmlns=Q")
                IN  db = Entities(db_ver(e)) /\ NothingRaw(db)
          /\ SubSeq(fout, Len(fout) - Len(fin.inner), Len(fout) - 1) = fin.inner
          /\ fout[Len(fout) - Len(fin.inner) - 1] = "</timestamp></header>"

\* an agent text holding an entity-like "&;" next to "<", and an inner
\* fragment with raw characters
C16_Witness ==
    /\ fpc = "built"
    /\ fin.edits.agent = << "&", ";", "<" >>
    /\ fin.inner = << "&", "a", ";" >>
    /\ Between(fout, "Q xmlns:xsi=...><header><agent>", "</agent><timestamp>")
         = << "&", "a", "m", "p", ";", ";", "&", "l", "t", ";" >>

-----------------------------------------------------------------------------
(* C17 .. C19: the fields of a response *)

\* the field elements of a document, in document order
FieldNodes(d) ==
    LET S == { i \in 1..Len(d) : d[i].node.kind = "field" }
        RECURSIVE Sorted(_, _)
        Sorted(i, acc) ==
            IF i > Len(d) THEN acc
            ELSE Sorted(i + 1, IF i \in S THEN Append(acc, i) ELSE acc)
    IN  Sorted(1, << >>)

\* the level a marker stands for: its numeric id, 1 without one
MarkerLevel(ids) ==
    IF \E k \in 1..Len(ids) : ids[k] \in {"1", "2"}
    THEN ToInt(ids[CHOOSE k \in 1..Len(ids) :
                     /\ ids[k] \in {"1", "2"}
                     /\ \A j \in 1..(k - 1) : ids[j] \notin {"1", "2"}])
    ELSE 1

RECURSIVE NearestLevel(_, _)
\* climbing from element i: the level of the nearest enclosing marker, 1 if none
NearestLevel(d, i) ==
    IF i = 0 THEN 1
    ELSE IF d[i].node.kind = "agg" THEN MarkerLevel(d[i].node.ids)
    ELSE NearestLevel(d, d[i].parent)

\* C17: each field is returned with the level of its nearest enclosing
\* aggregation-level, and with level 1 under no marker or under a marker
\* without a numeric id.
C17_NearestLevel ==
    fpc = "parsed" =>
      /\ Len(fout) = Len(FieldNodes(fin))
      /\ \A k \in 1..Len(fout) : fout[k].level = NearestLevel(fin, FieldNodes(fin)[k])

\* C18: with several preset children the first one's value is the preset.
C18_FirstPresetWins ==
    fpc = "parsed" =>
      \A k \in 1..Len(fout) :
          LET presets == fin[FieldNodes(fin)[k]].node.presets
          IN  presets # << >> => fout[k].preset = presets[1]

\* C19: each returned field carries its constraints in order, and the editor
\* is built from that list.
C19_RowsCarryConstraints ==
    fpc = "parsed" =>
      \A k \in 1..Len(fout) :
          /\ "constraints" \in DOMAIN fout[k]
          /\ RowConstraints(fout[k]) = fin[FieldNodes(fin)[k]].node.constraints

-----------------------------------------------------------------------------
(* C20: the editor of a constraint list *)

\* some constraint of the list has this type and a value passing the test
AnyConstraint(cs, t, Test(_)) == \E k \in 1..Len(cs) : cs[k].type = t /\ Test(cs[k].value)

\* C20: the editor is the regex validator if any type-27 constraint has a
\* non-empty value; else the integer interval if any type-25 constraint has a
\* value of the form "(min max)"; else required-non-empty if a type-10
\* constraint is present; else plain value.
C20_EditorByPriority ==
    fpc = "made" =>
      fout.behaviour =
        IF AnyConstraint(fin, 27, LAMBDA v : v # "") THEN "regex"
        ELSE IF AnyConstraint(fin, 25, IntervalMatch) THEN "int"
        ELSE IF AnyConstraint(fin, 10, LAMBDA v : TRUE) THEN "required"
        ELSE "value"

-----------------------------------------------------------------------------
(* C21 .. C23: the order data of a create or import request *)

\* the levels that have a field in the catalog
CatalogLevels(fields) == { fields[i].level : i \in 1..Len(fields) }

\* the ids of the blocks of the fragment, in order
BlockIds(blocks) == [ n \in 1..Len(blocks) |-> blocks[n].id ]

\* C21: the fragment has one aggregation-level block per level that has a
\* field in the catalog, ascending, also for levels without a filled field;
\* without any level it has the single block of level 0 with no elements.
C21_BlockPerCatalogLevel ==
    fpc = "built" =>
      IF fin.fields = << >>
      THEN fout.blocks = << [ id |-> 0, elements |-> << >> ] >>
      ELSE BlockIds(fout.blocks) = SortedLevels(CatalogLevels(fin.fields))

\* what the operator entered for row i: the stripped text of its editor
Entered(i) ==
    IF \E n \in 1..Len(fout.tree) : \E j \in 1..Len(fout.tree[n].items) :
           fout.tree[n].items[j].src = i /\ fout.tree[n].items[j].editor
    THEN StripText(fin.typed[i]) ELSE << >>

\* the elements of the fragment, block after block
RECURSIVE AllElements(_)
AllElements(blocks) ==
    IF blocks = << >> THEN << >>
    ELSE Head(blocks).elements \o AllElements(Tail(blocks))

\* the rows that must have an element: writable, no preset, a value entered
RowsWithElement ==
    { i \in 1..Len(fin.fields) :
        fin.fields[i].writable /\ fin.fields[i].preset = None /\ Entered(i) # << >> }

\* C22: the fragment has an <element> exactly for each writable field without
\* preset whose entered value is not empty, and none for a field with a preset.
C22_ElementsForFilledWritable ==
    fpc = "built" =>
      /\ Len(AllElements(fout.blocks)) = Cardinality(RowsWithElement)
      /\ \A lvl \in {1, 2} :
           LET exp == SelectSeq([ i \in 1..Len(fin.fields) |-> i ],
                                LAMBDA i : i \in RowsWithElement /\ fin.fields[i].level = lvl)
           IN  \A n \in 1..Len(fout.blocks) :
                 fout.blocks[n].id = lvl =>
                   fout.blocks[n].elements =
                     [ j \in 1..Len(exp) |->
                         [ name |-> Entities(fin.fields[exp[j]].name),
                           value |-> Entities(Entered(exp[j])) ] ]

\* the levels that received at least one value
PopulatedLevels ==
    SelectSeq(fout.levels,
              LAMBDA l : \E n \in 1..Len(fout.blocks) :
                            fout.blocks[n].id = l /\ fout.blocks[n].elements # << >>)

\* C23: with serial numbers included the block's level is the first level
\* above zero among the levels that received a value, 0 if there is none;
\* without the opt-in there is no block.
C23_SnsTargetLevel ==
    fpc = "built" =>
      IF ~ fin.chkIncludeSN THEN ~ fout.sns.present
      ELSE /\ fout.sns.present
           /\ fout.sns.level =
                LET pos == SelectSeq(PopulatedLevels, LAMBDA l : l > 0)
                IN  IF pos = << >> THEN 0 ELSE pos[1]

-----------------------------------------------------------------------------
(* C24, C25: get fields, and failures inside the handlers *)

\* C24: a get-fields action with an article selected sends a
\* get-article-fields request for that article (the handler goes on to the
\* exchange with the server, whose fields become the current catalog).
C24_GetFieldsSends ==
    [][ (pc = "idle" /\ currentItem # 0 /\ current_article' # current_article)
          => (pc' # "idle" /\ current_article' = listArticles[currentItem]) ]_vars

\* C25: a transport failure never leaves the handler of the operation it
\* happened in, the startup query-version included: the handler ends and the
\* next operation can be started.
C25_FailureStaysInHandler ==
    pc # "escaped"

-----------------------------------------------------------------------------
(* C26: responses over a persistent connection *)

\* C26: the text returned for a request holds only bytes the server sent in
\* reply to that request, never bytes of an earlier reply that arrived after
\* the earlier read had stopped on a timeout.
C26_OnlyOwnBytes ==
    fpc = "returned" =>
      \A i \in 1..Len(fout.origin) : fout.origin[i] = fout.req

=============================================================================
